---- MODULE Spec2Model ----
(***************************************************************************)
(* A model of ZipToAirQuality.py: the per-pollutant quality classifier of  *)
(* get_air_quality, the PM2.5 -> AQI interpolation of pm25_to_aqi and      *)
(* calc_aqi, and the pipeline geocode -> fetch -> classify -> assemble of  *)
(* get_air_quality_measurements_by_zip.                                    *)
(*                                                                         *)
(* Concentrations are decimal numbers; the model holds them as integers    *)
(* counting thousandths, so 250.5 is Milli(250, 500) and 0.035 is          *)
(* Milli(0, 35).  Every literal of the source is a whole number of         *)
(* thousandths, hence every comparison of the source is exact here.        *)
(* Python's None is the empty tuple and a present value v is <<v>>.        *)
(***************************************************************************)
EXTENDS Integers, Sequences, FiniteSets, TLC

VARIABLES
    pc,          \* position of get_air_quality_measurements_by_zip and its callees
    location,    \* what geolocator.geocode returned (line 128), None when nothing
    data,        \* response.json() of the OpenAQ request (line 40)
    aqd,         \* air_quality_data of get_air_quality (lines 47-52), None before
    idx,         \* index of the measurement the loop of line 54 is at
    ret,         \* the value get_air_quality_by_zip returned (line 191)
    todo,        \* keys the loop of line 199 has still to visit
    AQI_package, \* AQI_package of line 197 / 204
    report,      \* the dictionary returned at line 209, None before
    exc,         \* the exception that ended the call, "" when none
    cParam,      \* classifier harness: parameter of the measurement
    cValue,      \* classifier harness: value of the measurement
    cEntry,      \* classifier harness: the entry lines 58-105 built, None before
    seen,        \* classifier harness: quality labels returned so far for cParam
    pm25,        \* interpolator harness: the argument of pm25_to_aqi
    aqi,         \* interpolator harness: what pm25_to_aqi returned
    package,     \* interpolator harness: AQI_package of a report whose pm25 value is pm25
    lowMax       \* interpolator harness: largest index returned for any smaller argument

vars == <<pc, location, data, aqd, idx, ret, todo, AQI_package, report, exc,
          cParam, cValue, cEntry, seen, pm25, aqi, package, lowMax>>

pipeVars == <<pc, location, data, aqd, idx, ret, todo, AQI_package, report, exc>>
classVars == <<cParam, cValue, cEntry, seen>>
aqiVars == <<pm25, aqi, package, lowMax>>

None == <<>>
Some(v) == <<v>>

\* i.f with f given in thousandths: Milli(12, 100) is 12.1
Milli(i, f) == i * 1000 + f

Max(a, b) == IF a >= b THEN a ELSE b

(***************************************************************************)
(* The quality classifier: the four cascades of get_air_quality.           *)
(***************************************************************************)
\* Pm25Quality with the Moderate cutoff at 12.0 instead of 12.1.
Pm25Quality_cut12(value) ==
    IF value > Milli(250, 500) THEN "Hazardous"
    ELSE IF value > Milli(150, 500) THEN "Very Unhealthy"
    ELSE IF value > Milli(55, 500) THEN "Unhealthy"
    ELSE IF value > Milli(35, 500) THEN "Unhealthy for Sensitive Groups"
    ELSE IF value > Milli(12, 0) THEN "Moderate"
    ELSE "Good"

Pm25Quality(value) ==
    IF value > Milli(250, 500) THEN "Hazardous"
    ELSE IF value > Milli(150, 500) THEN "Very Unhealthy"
    ELSE IF value > Milli(55, 500) THEN "Unhealthy"
    ELSE IF value > Milli(35, 500) THEN "Unhealthy for Sensitive Groups"
    ELSE IF value > Milli(12, 100) THEN "Moderate"
    ELSE "Good"

\* Pm10Quality with the third tier's label copied from the o3 cascade.
Pm10Quality_copied(value) ==
    IF value > Milli(350, 500) THEN "Very Unhealthy"
    ELSE IF value > Milli(250, 500) THEN "Unhealthy"
    ELSE IF value > Milli(150, 500) THEN "Moderate"
    ELSE IF value > Milli(55, 500) THEN "Good"
    ELSE "Very Good"

Pm10Quality(value) ==
    IF value > Milli(350, 500) THEN "Very Unhealthy"
    ELSE IF value > Milli(250, 500) THEN "Unhealthy"
    ELSE IF value > Milli(150, 500) THEN "Poor"
    ELSE IF value > Milli(55, 500) THEN "Good"
    ELSE "Very Good"

O3Quality(value) ==
    IF value > Milli(0, 125) THEN "Very Unhealthy"
    ELSE IF value > Milli(0, 95) THEN "Unhealthy"
    ELSE IF value > Milli(0, 65) THEN "Moderate"
    ELSE IF value > Milli(0, 35) THEN "Good"
    ELSE "Very Good"

\* No2Quality with >= for > at the lowest cutoff.
No2Quality_ge(value) ==
    IF value > Milli(0, 200) THEN "Very Unhealthy"
    ELSE IF value > Milli(0, 100) THEN "Unhealthy"
    ELSE IF value > Milli(0, 50) THEN "Moderate"
    ELSE IF value >= Milli(0, 25) THEN "Good"
    ELSE "Very Good"

No2Quality(value) ==
    IF value > Milli(0, 200) THEN "Very Unhealthy"
    ELSE IF value > Milli(0, 100) THEN "Unhealthy"
    ELSE IF value > Milli(0, 50) THEN "Moderate"
    ELSE IF value > Milli(0, 25) THEN "Good"
    ELSE "Very Good"

\* Entry with a final else branch that labels every other parameter.
Entry_default(m) ==
    LET withQuality(q) == [value |-> m.value, unit |-> m.unit, quality |-> q]
    IN  IF m.parameter = "pm25" THEN withQuality(Pm25Quality(m.value))
        ELSE IF m.parameter = "pm10" THEN withQuality(Pm10Quality(m.value))
        ELSE IF m.parameter = "o3" THEN withQuality(O3Quality(m.value))
        ELSE IF m.parameter = "no2" THEN withQuality(No2Quality(m.value))
        ELSE withQuality("Unknown")

\* One pass of the loop body, lines 55-105: the entry stored under the
\* measurement's parameter.  A parameter none of the four branches names
\* keeps the two fields of line 58.
Entry(m) ==
    LET base == [value |-> m.value, unit |-> m.unit]
        withQuality(q) == [value |-> m.value, unit |-> m.unit, quality |-> q]
    IN  IF m.parameter = "pm25" THEN withQuality(Pm25Quality(m.value))
        ELSE IF m.parameter = "pm10" THEN withQuality(Pm10Quality(m.value))
        ELSE IF m.parameter = "o3" THEN withQuality(O3Quality(m.value))
        ELSE IF m.parameter = "no2" THEN withQuality(No2Quality(m.value))
        ELSE base

(***************************************************************************)
(* The index interpolator.                                                 *)
(*                                                                         *)
(* calc_aqi rounds the double (a/b)*c + Il.  The exact value is the        *)
(* rational (a*c + Il*b)/b.  When it is not half-way between two integers  *)
(* it is further from the half than any rounding error of the three        *)
(* double operations, and round() returns the nearest integer.  When it is *)
(* exactly half-way the double lies below, on or above the half, and       *)
(* round() returns either neighbour: both are outcomes.                    *)
(***************************************************************************)
RoundOutcomes(num, den) ==
    LET q == num \div den
        r == num % den
    IN  IF 2 * r < den THEN {q}
        ELSE IF 2 * r > den THEN {q + 1}
        ELSE {q, q + 1}

\* An exception as a returned outcome: a pair, never equal to None or Some(n).
Raise(e) == <<"raise", e>>
IsInt(x) == Len(x) = 1
IsRaise(x) == Len(x) = 2

\* calc_aqi with the offset Il left out of the interpolation.
calc_aqi_noIl(Cp, Ih, Il, BPh, BPl) ==
    LET a == Ih - Il
        b == BPh - BPl
        c == Cp - BPl
    IN  IF b = 0 THEN {Raise("ZeroDivisionError")}
        ELSE {Some(n) : n \in RoundOutcomes(a * c, b)}

\* calc_aqi with the slope taken from Ih alone instead of Ih - Il.
calc_aqi_slope(Cp, Ih, Il, BPh, BPl) ==
    LET a == Ih
        b == BPh - BPl
        c == Cp - BPl
    IN  IF b = 0 THEN {Raise("ZeroDivisionError")}
        ELSE {Some(n) : n \in RoundOutcomes(a * c + Il * b, b)}

\* The set of outcomes of calc_aqi: a/b raises when b is 0.
calc_aqi(Cp, Ih, Il, BPh, BPl) ==
    LET a == Ih - Il
        b == BPh - BPl
        c == Cp - BPl
    IN  IF b = 0 THEN {Raise("ZeroDivisionError")}
        ELSE {Some(n) : n \in RoundOutcomes(a * c + Il * b, b)}

\* The arguments (Ih, Il, BPh, BPl) of the seven calls of lines 159-171.
Seg7 == [Ih |-> 500, Il |-> 401, BPh |-> Milli(500, 0), BPl |-> Milli(350, 500)]
Seg6 == [Ih |-> 400, Il |-> 301, BPh |-> Milli(350, 400), BPl |-> Milli(250, 500)]
Seg5 == [Ih |-> 300, Il |-> 201, BPh |-> Milli(250, 400), BPl |-> Milli(150, 500)]
\* Seg4 with a mistyped upper concentration bound.
Seg4_typo == [Ih |-> 200, Il |-> 151, BPh |-> Milli(105, 400), BPl |-> Milli(55, 500)]
Seg4 == [Ih |-> 200, Il |-> 151, BPh |-> Milli(150, 400), BPl |-> Milli(55, 500)]
Seg3 == [Ih |-> 150, Il |-> 101, BPh |-> Milli(55, 400), BPl |-> Milli(35, 500)]
Seg2 == [Ih |-> 100, Il |-> 51, BPh |-> Milli(35, 400), BPl |-> Milli(12, 100)]
Seg1 == [Ih |-> 50, Il |-> 0, BPh |-> Milli(12, 0), BPl |-> 0]

OnSegment(v, s) == calc_aqi(v, s.Ih, s.Il, s.BPh, s.BPl)

\* pm25_to_aqi without the saturation branch of lines 156-157.
pm25_to_aqi_nosat(v) ==
    IF v < 0 THEN {None}
    ELSE IF v > Milli(350, 500) THEN OnSegment(v, Seg7)
    ELSE IF v > Milli(250, 500) THEN OnSegment(v, Seg6)
    ELSE IF v > Milli(150, 500) THEN OnSegment(v, Seg5)
    ELSE IF v > Milli(55, 500) THEN OnSegment(v, Seg4)
    ELSE IF v > Milli(35, 500) THEN OnSegment(v, Seg3)
    ELSE IF v > Milli(12, 100) THEN OnSegment(v, Seg2)
    ELSE IF v >= 0 THEN OnSegment(v, Seg1)
    ELSE {None}

\* The set of outcomes of pm25_to_aqi for the argument v.  A Python number
\* that fails every comparison falls off the end and returns None.
pm25_to_aqi(v) ==
    IF v < 0 THEN {None}
    ELSE IF v > Milli(500, 0) THEN {Some(500)}
    ELSE IF v > Milli(350, 500) THEN OnSegment(v, Seg7)
    ELSE IF v > Milli(250, 500) THEN OnSegment(v, Seg6)
    ELSE IF v > Milli(150, 500) THEN OnSegment(v, Seg5)
    ELSE IF v > Milli(55, 500) THEN OnSegment(v, Seg4)
    ELSE IF v > Milli(35, 500) THEN OnSegment(v, Seg3)
    ELSE IF v > Milli(12, 100) THEN OnSegment(v, Seg2)
    ELSE IF v >= 0 THEN OnSegment(v, Seg1)
    ELSE {None}

\* Lines 202-204: the AQI_package a pm25 entry gives when pm25_to_aqi returns x.
Package(entry, x) == [value |-> x, quality |-> entry.quality]

(***************************************************************************)
(* Idle values of the variables a specification does not use.              *)
(***************************************************************************)
PipeIdle ==
    /\ pc = "idle" /\ location = None /\ data = None /\ aqd = None /\ idx = 0 /\ ret = None
    /\ todo = <<>> /\ AQI_package = None /\ report = None /\ exc = ""
ClassIdle == cParam = "" /\ cValue = 0 /\ cEntry = None /\ seen = {}
AqiIdle == pm25 = 0 /\ aqi = None /\ package = None /\ lowMax = None

(***************************************************************************)
(* Interpolator harness: pm25_to_aqi applied to every concentration from   *)
(* -NegSpan to MaxPm, a thousandth at a time in ascending order, each      *)
(* result stored with the AQI_package a report with that pm25 value gets.  *)
(***************************************************************************)
NegSpan == 1
MaxPm == 501

Pm25Measurement(v) == [parameter |-> "pm25", value |-> v, unit |-> "ug/m3"]

Evaluated(v, x) ==
    /\ pm25' = v
    /\ aqi' = x
    /\ package' = IF IsRaise(x) THEN None
                  ELSE Some(Package(Entry(Pm25Measurement(v)), x))

InitAqi ==
    /\ PipeIdle /\ ClassIdle
    /\ pm25 = - Milli(NegSpan, 0)
    /\ aqi \in pm25_to_aqi(pm25)
    /\ package = IF IsRaise(aqi) THEN None
                 ELSE Some(Package(Entry(Pm25Measurement(pm25)), aqi))
    /\ lowMax = None

EvaluateNext ==
    /\ pm25 < Milli(MaxPm, 0)
    /\ \E x \in pm25_to_aqi(pm25 + 1) : Evaluated(pm25 + 1, x)
    /\ lowMax' = IF ~IsInt(aqi) THEN lowMax
                 ELSE IF lowMax = None THEN aqi
                 ELSE Some(Max(lowMax[1], aqi[1]))
    /\ UNCHANGED <<pipeVars, classVars>>

NextAqi == EvaluateNext

SpecAqi == InitAqi /\ [][NextAqi]_vars

(***************************************************************************)
(* Classifier harness: the loop body of get_air_quality applied to one     *)
(* measurement after another of one parameter, the labels it has attached  *)
(* to non-negative values collected in seen.                               *)
(***************************************************************************)
Supported == {"pm25", "pm10", "o3", "no2"}
Parameters == Supported \cup {"co"}

ProbeSpan == 1

\* The values probed: every cutoff of the four cascades and a few values
\* inside the tiers, each with its neighbours ProbeSpan thousandths around.
ProbeCentres ==
    {Milli(12, 100), Milli(35, 500), Milli(55, 500), Milli(150, 500),
     Milli(250, 500), Milli(350, 500),
     Milli(0, 25), Milli(0, 35), Milli(0, 50), Milli(0, 65), Milli(0, 95),
     Milli(0, 100), Milli(0, 125), Milli(0, 200),
     0, Milli(0, 30), Milli(0, 150), Milli(10, 0), Milli(40, 0),
     Milli(300, 0), Milli(1000, 0)}
ClassValues == {c + d : c \in ProbeCentres, d \in (-ProbeSpan)..ProbeSpan}

UnitOf(p) == IF p \in {"pm25", "pm10"} THEN "ug/m3" ELSE "ppm"

InitClassify ==
    /\ PipeIdle /\ AqiIdle
    /\ cParam \in Parameters
    /\ cValue \in ClassValues
    /\ cEntry = None
    /\ seen = {}

\* Lines 55-105 on the measurement (cParam, cValue).
Classify ==
    /\ cEntry = None
    /\ LET e == Entry([parameter |-> cParam, value |-> cValue, unit |-> UnitOf(cParam)])
       IN  /\ cEntry' = Some(e)
           /\ seen' = IF "quality" \in DOMAIN e /\ cValue >= 0
                      THEN seen \cup {e.quality} ELSE seen
    /\ UNCHANGED <<cParam, cValue, pipeVars, aqiVars>>

\* The loop of line 54 moves on to the next measurement.
NextMeasurement ==
    /\ cEntry # None
    /\ cValue' \in ClassValues
    /\ cEntry' = None
    /\ UNCHANGED <<cParam, seen, pipeVars, aqiVars>>

NextClassify == Classify \/ NextMeasurement

SpecClassify == InitClassify /\ [][NextClassify]_vars

(***************************************************************************)
(* The pipeline: get_air_quality_measurements_by_zip calling               *)
(* get_air_quality_by_zip calling get_air_quality.  Python values whose    *)
(* type decides what the code does carry the type: PyNone, PyStr, PyDict.  *)
(* A dict is a function on its keys; the dict "measurements" also keeps    *)
(* its keys in insertion order, the order line 199 iterates in.            *)
(***************************************************************************)
MaxMeas == 3

PyUnset == [type |-> "unset"]
PyNone == [type |-> "NoneType"]
PyStr(x) == [type |-> "str", val |-> x]
PyDict(d) == [type |-> "dict", val |-> d]

\* The measurements an OpenAQ result can list.
MeasurementOf(p, vs, us) ==
    {[parameter |-> p, value |-> v, unit |-> u, lastUpdated |-> "t"] : v \in vs, u \in us}
Measurements ==
    MeasurementOf("pm25", {-Milli(5, 0), Milli(12, 100), Milli(40, 0), Milli(550, 0)}, {"ug/m3"})
    \cup MeasurementOf("pm10", {Milli(60, 0), Milli(300, 0)}, {"ug/m3"})
    \cup MeasurementOf("o3", {Milli(0, 30), Milli(0, 150)}, {"ppm"})
    \cup MeasurementOf("no2", {Milli(0, 300)}, {"ppm", "ug/m3"})
    \cup MeasurementOf("co", {Milli(0, 500)}, {"ppm"})

MeasurementSeqs == UNION {[1..n -> Measurements] : n \in 0..MaxMeas}

\* The JSON bodies the request of line 39 can come back with: one without
\* the key "results", one with no result, and one result (limit = 1) with
\* any list of measurements.
Responses ==
    {[message |-> "error"], [results |-> <<>>]}
    \cup {[results |-> <<[location |-> "station", city |-> "city", measurements |-> ms]>>] :
            ms \in MeasurementSeqs}

EmptyDict == [k \in {} |-> None]
Put(d, k, v) == [x \in DOMAIN d \cup {k} |-> IF x = k THEN v ELSE d[x]]

Init ==
    /\ ClassIdle /\ AqiIdle
    /\ pc = "start"
    /\ location = None
    /\ data = None
    /\ aqd = None
    /\ idx = 0
    /\ ret = PyUnset
    /\ todo = <<>>
    /\ AQI_package = None
    /\ report = None
    /\ exc = ""

\* Lines 127-133 of get_air_quality_by_zip: the geocoder finds the place or
\* returns None, and then the function returns its message.
Geocode ==
    /\ pc = "start"
    /\ \E found \in BOOLEAN :
          IF found
          THEN /\ location' = Some("place")
               /\ pc' = "request"
               /\ ret' = ret
          ELSE /\ location' = None
               /\ ret' = PyStr("Invalid Zip code or Country code")
               /\ pc' = "returned"
    /\ UNCHANGED <<data, aqd, idx, todo, AQI_package, report, exc, classVars, aqiVars>>

\* Lines 39-52 of get_air_quality: the request, the test for "results", the
\* first result and the first measurement's lastUpdated.
Fetch ==
    /\ pc = "request"
    /\ \E d \in Responses :
          /\ data' = d
          /\ IF "results" \notin DOMAIN d
             THEN /\ ret' = PyNone
                  /\ pc' = "returned"
                  /\ UNCHANGED <<aqd, idx, exc>>
             ELSE IF Len(d.results) = 0
             THEN /\ exc' = "IndexError"
                  /\ pc' = "raised"
                  /\ UNCHANGED <<aqd, idx, ret>>
             ELSE IF Len(d.results[1].measurements) = 0
             THEN /\ exc' = "IndexError"
                  /\ pc' = "raised"
                  /\ UNCHANGED <<aqd, idx, ret>>
             ELSE /\ aqd' = Some([location |-> d.results[1].location,
                                  city |-> d.results[1].city,
                                  lastUpdated |-> d.results[1].measurements[1].lastUpdated,
                                  measurements |-> EmptyDict,
                                  order |-> <<>>])
                  /\ idx' = 1
                  /\ pc' = "loop"
                  /\ UNCHANGED <<ret, exc>>
    /\ UNCHANGED <<location, todo, AQI_package, report, classVars, aqiVars>>

\* One pass of the loop of lines 54-105.
LoopStep ==
    /\ pc = "loop"
    /\ idx <= Len(data.results[1].measurements)
    /\ LET m == data.results[1].measurements[idx]
           d == aqd[1]
       IN  aqd' = Some([d EXCEPT
                 !.measurements = Put(d.measurements, m.parameter, Entry(m)),
                 !.order = IF m.parameter \in DOMAIN d.measurements
                           THEN d.order ELSE Append(d.order, m.parameter)])
    /\ idx' = idx + 1
    /\ UNCHANGED <<pc, location, data, ret, todo, AQI_package, report, exc,
                   classVars, aqiVars>>

\* Line 107, and line 138 of get_air_quality_by_zip.
ReturnData ==
    /\ pc = "loop"
    /\ idx > Len(data.results[1].measurements)
    /\ ret' = PyDict(aqd[1])
    /\ pc' = "returned"
    /\ UNCHANGED <<location, data, aqd, idx, todo, AQI_package, report, exc,
                   classVars, aqiVars>>

\* Lines 191-197: subscripting a str or None with 'location' raises TypeError.
BeginAssembly ==
    /\ pc = "returned"
    /\ IF ret.type # "dict"
       THEN /\ exc' = "TypeError"
            /\ pc' = "raised"
            /\ UNCHANGED <<todo, AQI_package>>
       ELSE /\ todo' = ret.val.order
            /\ AQI_package' = None
            /\ pc' = "assemble"
            /\ exc' = exc
    /\ UNCHANGED <<location, data, aqd, idx, ret, report, classVars, aqiVars>>

\* One pass of the loop of lines 199-204 with the key test of line 201 left out.
AssembleStep_anyKey ==
    /\ pc = "assemble"
    /\ todo # <<>>
    /\ LET entry == ret.val.measurements[Head(todo)]
       IN  \E x \in pm25_to_aqi(entry.value) :
              /\ AQI_package' = Some([value |-> x,
                     quality |-> IF "quality" \in DOMAIN entry
                                 THEN entry.quality ELSE "Good"])
              /\ pc' = pc
              /\ exc' = exc
    /\ todo' = Tail(todo)
    /\ UNCHANGED <<location, data, aqd, idx, ret, report, classVars, aqiVars>>

\* One pass of the loop of lines 199-204.
AssembleStep ==
    /\ pc = "assemble"
    /\ todo # <<>>
    /\ LET AQtype == Head(todo)
           entry == ret.val.measurements[AQtype]
       IN  IF AQtype = "pm25"
           THEN \E x \in pm25_to_aqi(entry.value) :
                   IF IsRaise(x)
                   THEN /\ exc' = x[2]
                        /\ pc' = "raised"
                        /\ AQI_package' = AQI_package
                   ELSE /\ AQI_package' = Some(Package(entry, x))
                        /\ UNCHANGED <<pc, exc>>
           ELSE UNCHANGED <<AQI_package, pc, exc>>
    /\ todo' = Tail(todo)
    /\ UNCHANGED <<location, data, aqd, idx, ret, report, classVars, aqiVars>>

\* Lines 206-209: the keys 'AQI' and 'location' are added and the dict returned.
Finish ==
    /\ pc = "assemble"
    /\ todo = <<>>
    /\ LET ms == ret.val.measurements
       IN  report' = Some([k \in DOMAIN ms \cup {"AQI", "location"} |->
                            IF k = "AQI" THEN AQI_package
                            ELSE IF k = "location" THEN Some(ret.val.location)
                            ELSE Some(ms[k])])
    /\ pc' = "done"
    /\ UNCHANGED <<location, data, aqd, idx, ret, todo, AQI_package, exc,
                   classVars, aqiVars>>

Next ==
    \/ Geocode
    \/ Fetch
    \/ LoopStep
    \/ ReturnData
    \/ BeginAssembly
    \/ AssembleStep
    \/ Finish

Spec == Init /\ [][Next]_vars

(***************************************************************************)
(* Properties of the classifier, checked under SpecClassify.               *)
(***************************************************************************)
\* The specification's table: per pollutant the cutoffs from the highest
\* down, each with the category of a value above it, and the best category.
\* The labels are the source's spelling of the specification's names.
SpecTiers(p) ==
    IF p = "pm25" THEN
        << <<Milli(250, 500), "Hazardous">>, <<Milli(150, 500), "Very Unhealthy">>,
           <<Milli(55, 500), "Unhealthy">>,
           <<Milli(35, 500), "Unhealthy for Sensitive Groups">>,
           <<Milli(12, 100), "Moderate">> >>
    ELSE IF p = "pm10" THEN
        << <<Milli(350, 500), "Very Unhealthy">>, <<Milli(250, 500), "Unhealthy">>,
           <<Milli(150, 500), "Poor">>, <<Milli(55, 500), "Good">> >>
    ELSE IF p = "o3" THEN
        << <<Milli(0, 125), "Very Unhealthy">>, <<Milli(0, 95), "Unhealthy">>,
           <<Milli(0, 65), "Moderate">>, <<Milli(0, 35), "Good">> >>
    ELSE
        << <<Milli(0, 200), "Very Unhealthy">>, <<Milli(0, 100), "Unhealthy">>,
           <<Milli(0, 50), "Moderate">>, <<Milli(0, 25), "Good">> >>
SpecBest(p) == IF p = "pm25" THEN "Good" ELSE "Very Good"

RECURSIVE FirstExceeded(_, _, _)
FirstExceeded(p, i, v) ==
    IF i > Len(SpecTiers(p)) THEN SpecBest(p)
    ELSE IF v > SpecTiers(p)[i][1] THEN SpecTiers(p)[i][2]
    ELSE FirstExceeded(p, i + 1, v)

TableCategory(p, v) == FirstExceeded(p, 1, v)

Classified == cEntry # None /\ cParam \in Supported /\ cValue >= 0

FixedSet(p) == {SpecTiers(p)[i][2] : i \in 1..Len(SpecTiers(p))} \cup {SpecBest(p)}

\* The categories the classifier returns over the non-negative probed values.
Returned(p) ==
    {Entry([parameter |-> p, value |-> v, unit |-> UnitOf(p)]).quality :
        v \in {x \in ClassValues : x >= 0}}

OneCategory ==
    /\ Classified =>
          /\ DOMAIN cEntry[1] = {"value", "unit", "quality"}
          /\ cEntry[1].quality \in FixedSet(cParam)
    /\ cParam \in Supported => seen \subseteq FixedSet(cParam)
    /\ \A p \in Supported : Returned(p) = FixedSet(p)

\* C6 as stated: exactly one category for every v >= 0, and the categories
\* returned are the pollutant's fixed set, of 6 tiers for PM2.5, 5 for PM10
\* and 4 each for O3 and NO2.
C6_TierCounts ==
    /\ OneCategory
    /\ cParam = "pm25" => Cardinality(seen) <= 6
    /\ cParam = "pm10" => Cardinality(seen) <= 5
    /\ cParam \in {"o3", "no2"} => Cardinality(seen) <= 4

\* C6 as amended: exactly one category for every v >= 0, and the categories
\* returned are the pollutant's fixed set, of 6 tiers for PM2.5 and 5 each
\* for PM10, O3 and NO2.
C6_TierCountsFive ==
    /\ OneCategory
    /\ cParam = "pm25" => Cardinality(seen) <= 6
    /\ cParam \in {"pm10", "o3", "no2"} => Cardinality(seen) <= 5
    /\ Cardinality(Returned("pm25")) = 6
    /\ \A p \in {"pm10", "o3", "no2"} : Cardinality(Returned(p)) = 5

\* Every category of O3 has been returned: five of them.
C6_Witness ==
    /\ cParam = "o3" /\ cEntry # None
    /\ seen = {"Very Unhealthy", "Unhealthy", "Moderate", "Good", "Very Good"}

(***************************************************************************)
(* Properties of the pipeline, checked under Spec.                         *)
(***************************************************************************)
Listed == data.results[1].measurements
Present == {Listed[i].parameter : i \in 1..Len(Listed)}
\* The measurement of parameter p that the dict keeps: the last one listed.
LastOf(p) ==
    Listed[CHOOSE i \in 1..Len(Listed) :
              /\ Listed[i].parameter = p
              /\ \A j \in 1..Len(Listed) : Listed[j].parameter = p => j <= i]

\* C7: in the report every supported pollutant present carries its category;
\* the AQI entry is pm25_to_aqi of the PM2.5 value with the PM2.5 category,
\* whatever else is measured; no pollutant's entry carries an AQI; without a
\* PM2.5 measurement the AQI entry is null; and every measurement's value and
\* unit are as received.
C7_Report ==
    pc = "done" =>
        /\ DOMAIN report[1] = Present \cup {"AQI", "location"}
        /\ \A p \in Present :
              /\ report[1][p][1].value = LastOf(p).value
              /\ report[1][p][1].unit = LastOf(p).unit
              /\ DOMAIN report[1][p][1] \subseteq {"value", "unit", "quality"}
              /\ p \in Supported =>
                    /\ "quality" \in DOMAIN report[1][p][1]
                    /\ report[1][p][1].quality = TableCategory(p, LastOf(p).value)
        /\ IF "pm25" \in Present
           THEN /\ report[1]["AQI"] # None
                /\ report[1]["AQI"][1].value \in pm25_to_aqi(LastOf("pm25").value)
                /\ report[1]["AQI"][1].quality = TableCategory("pm25", LastOf("pm25").value)
           ELSE report[1]["AQI"] = None

\* A report for PM2.5, PM10 and O3 measurements.
C7_Witness ==
    /\ pc = "done"
    /\ DOMAIN report[1] = {"pm25", "pm10", "o3", "AQI", "location"}
    /\ report[1]["AQI"] = Some([value |-> Some(112),
                                 quality |-> "Unhealthy for Sensitive Groups"])
    /\ report[1]["o3"] = Some([value |-> Milli(0, 150), unit |-> "ppm",
                                quality |-> "Very Unhealthy"])

\* What get_air_quality and the assembly give for a list of measurements:
\* the entries, and the AQI packages.
RECURSIVE EntriesOf(_)
EntriesOf(ms) ==
    IF Len(ms) = 0 THEN EmptyDict
    ELSE Put(EntriesOf(SubSeq(ms, 1, Len(ms) - 1)), ms[Len(ms)].parameter,
             Entry(ms[Len(ms)]))
PackagesOf(ms) ==
    IF "pm25" \in DOMAIN EntriesOf(ms)
    THEN {Some(Package(EntriesOf(ms)["pm25"], x)) :
             x \in pm25_to_aqi(EntriesOf(ms)["pm25"].value)}
    ELSE {None}
IsSupported(m) == m.parameter \in Supported

\* C8: a measurement of a pollutant other than pm25, pm10, o3, no2 raises
\* nothing; its entry holds exactly its value and unit and no quality; and
\* the other entries and the AQI entry are those of the same measurements
\* without it.
C8_PassThrough ==
    /\ (pc = "raised" /\ "results" \in DOMAIN data /\ Len(data.results) > 0)
          => Len(Listed) = 0
    /\ pc = "done" =>
          /\ \A p \in Present \ Supported :
                report[1][p] = Some([value |-> LastOf(p).value, unit |-> LastOf(p).unit])
          /\ \A p \in Present \cap Supported :
                report[1][p] = Some(EntriesOf(SelectSeq(Listed, IsSupported))[p])
          /\ report[1]["AQI"] \in PackagesOf(SelectSeq(Listed, IsSupported))

\* A report with an unsupported pollutant listed between two supported ones.
C8_Witness ==
    /\ pc = "done"
    /\ Len(Listed) = 3 /\ Listed[1].parameter = "pm25"
    /\ Listed[2].parameter = "co" /\ Listed[3].parameter = "o3"
    /\ report[1]["co"] = Some([value |-> Milli(0, 500), unit |-> "ppm"])
    /\ report[1]["AQI"] # None

Unusable ==
    \/ "results" \notin DOMAIN data
    \/ Len(data.results) = 0
    \/ Len(data.results[1].measurements) = 0

\* C9: a failure of a collaborator surfaces as a no-result value and never as
\* an exception: when the geocoder finds nothing get_air_quality_by_zip
\* returns its message; when the response has no "results" key, no result or
\* a result without measurements get_air_quality returns None; and in each
\* case get_air_quality_measurements_by_zip returns a value and does not raise.
C9_NoResultNotException ==
    /\ pc # "raised" /\ exc = ""
    /\ (pc = "returned" /\ location = None) => ret.type = "str"
    /\ (pc \notin {"start", "request"} /\ location # None /\ Unusable) => ret = PyNone

(***************************************************************************)
(* Properties of the interpolator, checked under SpecAqi.                  *)
(***************************************************************************)
InRange == pm25 >= 0 /\ pm25 <= Milli(500, 0)

\* C2: pm25_to_aqi is monotonically non-decreasing on [0, 500]: the index
\* returned for a concentration in [0, 500] is at least the index returned for
\* every smaller concentration in [0, 500], the values between one segment's
\* BPh and the next cutoff included.
C2_Monotone ==
    (InRange /\ lowMax # None) => (IsInt(aqi) /\ lowMax[1] <= aqi[1])

\* A concentration between BPh = 350.4 and the cutoff 350.5, evaluated after
\* every smaller one.
C2_Witness ==
    pm25 = Milli(350, 450) /\ lowMax = Some(400) /\ aqi = Some(400)

\* C3: pm25_to_aqi never raises; it returns None for every Cp < 0, exactly 500
\* for every Cp > 500 and an integer for every Cp in [0, 500].
C3_OutOfRangeByValue ==
    /\ ~IsRaise(aqi)
    /\ pm25 < 0 => aqi = None
    /\ pm25 > Milli(500, 0) => aqi = Some(500)
    /\ InRange => (IsInt(aqi) /\ aqi[1] \in Int)

\* The saturated case has been evaluated.
C3_Witness == pm25 = Milli(500, 1) /\ aqi = Some(500)

\* The upper concentration bound and upper index bound of each segment as the
\* specification lists them, lowest segment first.
SpecBPh == <<Milli(12, 0), Milli(35, 400), Milli(55, 400), Milli(150, 400),
             Milli(250, 400), Milli(350, 400), Milli(500, 0)>>
SpecIh == <<50, 100, 150, 200, 300, 400, 500>>

\* C4: at each segment's upper concentration bound BPh, pm25_to_aqi returns
\* exactly that segment's upper index bound Ih, and pm25_to_aqi(0) = 0.
C4_UpperBounds ==
    /\ \A i \in 1..7 : pm25 = SpecBPh[i] => aqi = Some(SpecIh[i])
    /\ pm25 = 0 => aqi = Some(0)

\* The upper bound of the sixth segment has been evaluated.
C4_Witness == pm25 = Milli(350, 400) /\ aqi = Some(400)

\* The breakpoint table of pm25_to_aqi read in ascending concentration order.
Segments == <<Seg1, Seg2, Seg3, Seg4, Seg5, Seg6, Seg7>>

Ascending ==
    /\ \A i \in 1..7 : Segments[i].BPl < Segments[i].BPh
    /\ \A i \in 1..6 : Segments[i].BPl < Segments[i + 1].BPl
NoOverlap == \A i \in 1..6 : Segments[i].BPh <= Segments[i + 1].BPl
NoGap == \A i \in 1..6 : Segments[i].BPh >= Segments[i + 1].BPl
FirstLowZero == Segments[1].BPl = 0

\* C5 as stated: the table pm25_to_aqi interpolates a concentration of
\* [0, 500] on is ascending, without overlap, without a gap between one
\* segment's BPh and the next segment's BPl, and starts at 0.
C5_Contiguous == InRange => (Ascending /\ NoOverlap /\ NoGap /\ FirstLowZero)

\* The segment pm25_to_aqi interpolates a concentration of [0, 500] on: the
\* highest one whose BPl lies below it, the first one for 0.
SegmentOf(v) ==
    IF v = 0 THEN 1
    ELSE CHOOSE i \in 1..7 :
            /\ Segments[i].BPl < v
            /\ \A j \in 1..7 : Segments[j].BPl < v => j <= i

\* C5 as amended: the table is ascending, without overlap and starts at 0, and
\* each segment's BPl lies exactly 0.1 above the previous segment's BPh; a
\* concentration of [0, 500], inside such a gap or not, gets an index within
\* the [Il, Ih] of the last segment that starts below it.
C5_TenthGaps ==
    /\ Ascending /\ NoOverlap /\ FirstLowZero
    /\ \A i \in 1..6 : Segments[i + 1].BPl - Segments[i].BPh = Milli(0, 100)
    /\ Segments[7].BPh = Milli(500, 0)
    /\ InRange =>
          /\ IsInt(aqi)
          /\ aqi[1] >= Segments[SegmentOf(pm25)].Il
          /\ aqi[1] <= Segments[SegmentOf(pm25)].Ih

\* A concentration inside the gap between 12 and 12.1, interpolated on the
\* first segment.
C5_Witness ==
    /\ pm25 = Milli(12, 50) /\ SegmentOf(pm25) = 1 /\ aqi = Some(50)
    /\ pm25 > Segments[1].BPh /\ pm25 < Segments[2].BPl

Band(n) ==
    IF n \in 0..50 THEN "Good"
    ELSE IF n \in 51..100 THEN "Moderate"
    ELSE IF n \in 101..150 THEN "Unhealthy for Sensitive Groups"
    ELSE IF n \in 151..200 THEN "Unhealthy"
    ELSE IF n \in 201..300 THEN "Very Unhealthy"
    ELSE IF n \in 301..500 THEN "Hazardous"
    ELSE "out of scale"

\* C10: in a report with a PM2.5 value v >= 0 the AQI entry's number is an
\* integer in 0..500 and its quality label is the label of the index band the
\* number lies in (0..50 Good, 51..100 Moderate, 101..150 Unhealthy for
\* Sensitive Groups, 151..200 Unhealthy, 201..300 Very Unhealthy, 301..500
\* Hazardous), also for v between a segment's BPh and the next cutoff.
C10_BandAgreement ==
    pm25 >= 0 =>
        /\ package # None
        /\ IsInt(package[1].value)
        /\ package[1].value[1] \in 0..500
        /\ package[1].quality = Band(package[1].value[1])

\* The AQI entry of a report whose PM2.5 value lies between 35.4 and 35.5.
C10_Witness ==
    /\ pm25 = Milli(35, 450)
    /\ package = Some([value |-> Some(100), quality |-> "Moderate"])

====
